---------------------------- MODULE Spec2Model ----------------------------
(***************************************************************************)
(* Points ledger and goal-progression state machine of choremint-MVP.      *)
(*                                                                         *)
(* Tables: points_ledger, goal_history, character_progress, children       *)
(* (goal_points, reward, points) and submissions.  Triggers:               *)
(*   update_child_points                (submissions, on status update)    *)
(*   update_character_progress          (points_ledger, AFTER INSERT)      *)
(*   on_goal_achieved_update_character  (goal_history,  AFTER INSERT)      *)
(* The goal-achievement detector that writes goal_history and the          *)
(* goal_achieved_reset ledger row is not among the source files; it is     *)
(* modelled from section 4.2/4.3 of the specification.                     *)
(***************************************************************************)
EXTENDS Integers, Sequences, FiniteSets, TLC

VARIABLES
    points_ledger,      \* table points_ledger: sequence of rows, in insertion order
    goal_history,       \* table goal_history: sequence of rows, in insertion order
    character_progress, \* table character_progress: one row per child (present or not)
    children,           \* table children: goal_points, reward, points per child
    submissions,        \* table submissions: status per submission
    now,                \* the database clock NOW(), in seconds
    pending,            \* per child: appends whose detection sequence has not run yet
    lastFired,          \* child whose detector invocation performed an achievement in the last step
    appended,           \* history variable: per child, arithmetic sum of all deltas appended
    alert,              \* whether the last step ended in handleApprove's error alert
    client,             \* the session of a child in the browser: cached points, change
                        \* notifications and reloads under way
    localStorage,       \* the cache_ entries of the parent's browser storage
    dateNow,            \* Date.now() of the parent's browser
    cacheLog            \* per key the last set called and the last set stored, and
                        \* what the last get returned

vars == <<points_ledger, goal_history, character_progress, children, submissions,
          now, pending, lastFired, appended, alert, client,
          localStorage, dateNow, cacheLog>>

---------------------------------------------------------------------------
(* Bounds of the model *)

MaxAppends == 2         \* approval and manual appends, all children together
MaxTicks == 1           \* clock advances
TickSecs == 61          \* seconds per clock advance
MaxLevelGoal == 100     \* largest goal_points of the level computation runs
MaxLevelPoints == 101   \* largest balance of the level computation runs
MaxOldGoals == 4        \* goals a child achieved before character_progress existed

Children == {"c1", "c2"}
\* the children the operations of Next act on
Active == {"c1"}
NoChild == "none"
Submissions == {"s1"}
NULL == "null"
\* submissions.chore_id: no chore, or the one chore of the family
ChoreIds == {NULL, "chore1"}
\* with the chore created from a template
TemplateChoreIds == ChoreIds \cup {"chore0"}

\* goal settings a parent saves: (goal_points, reward)
GoalConfigs == { [goal_points |-> 200, reward |-> "bike"],
                 [goal_points |-> 0,   reward |-> NULL] }

\* deltas of manual adjustments
ManualDeltas == {-50, 100, 300}

---------------------------------------------------------------------------
(* Program constants *)

DefaultChorePoints == 10    \* update_child_points: COALESCE(c.points, 10)
DefaultGoalPoints == 100    \* update_character_progress: COALESCE(goal_points, 100)
DedupWindowSecs == 60       \* detector: idempotency window

\* submissions.child_id
SubChild(s) == "c1"
\* chores.points (INTEGER NOT NULL, no CHECK): the chore of the family, and a chore
\* copied from a chore_templates row of 0 points (handleAddFromTemplate)
ChorePoints(chore) == IF chore = "chore0" THEN 0 ELSE 50

---------------------------------------------------------------------------
(* Ledger Store / Balance Projector *)

RECURSIVE SumDeltas(_, _)
SumDeltas(rows, c) ==
    IF rows = << >> THEN 0
    ELSE (IF Head(rows).child_id = c THEN Head(rows).delta ELSE 0) + SumDeltas(Tail(rows), c)

\* mutant: only positive deltas are summed
RECURSIVE SumForPositive(_, _)
SumForPositive(rows, c) ==
    IF rows = << >> THEN 0
    ELSE (IF Head(rows).child_id = c /\ Head(rows).delta > 0 THEN Head(rows).delta ELSE 0)
         + SumForPositive(Tail(rows), c)

\* mutant: the rows of every child are summed
RECURSIVE SumForAllChildren(_, _)
SumForAllChildren(rows, c) ==
    IF rows = << >> THEN 0
    ELSE Head(rows).delta + SumForAllChildren(Tail(rows), c)

\* child_points_view.total_points / SELECT COALESCE(SUM(delta), 0) ... WHERE child_id = c
SumFor(rows, c) == SumDeltas(rows, c)

RECURSIVE CountRows(_, _, _)
CountRows(rows, c, reason) ==
    IF rows = << >> THEN 0
    ELSE (IF Head(rows).child_id = c /\ Head(rows).reason = reason THEN 1 ELSE 0)
         + CountRows(Tail(rows), c, reason)

\* SELECT COUNT(*) FROM goal_history WHERE child_id = c
RECURSIVE GoalCount(_, _)
GoalCount(rows, c) ==
    IF rows = << >> THEN 0
    ELSE (IF Head(rows).child_id = c THEN 1 ELSE 0) + GoalCount(Tail(rows), c)

LedgerRow(c, d, reason, sub) ==
    [child_id |-> c, delta |-> d, reason |-> reason, submission_id |-> sub]

\* number of rows of child c
RECURSIVE RowsOf(_, _)
RowsOf(rows, c) ==
    IF rows = << >> THEN 0
    ELSE (IF Head(rows).child_id = c THEN 1 ELSE 0) + RowsOf(Tail(rows), c)

---------------------------------------------------------------------------
(* The child's session in the browser (ChildToday, ChildRewards) *)

\* the child whose session it is
ClientChild == "c1"

\* no session open: nothing is subscribed to the changes of points_ledger
ClientClosed == [subscribed |-> FALSE, points |-> 0, events |-> 0, started |-> 0,
                 results |-> << >>]

\* supabase_realtime publication of points_ledger, filter child_id = ClientChild:
\* one change notification per row inserted for the child, while subscribed
Notified(ledger2) ==
    IF client.subscribed
    THEN [client EXCEPT !.events = @ + RowsOf(ledger2, ClientChild)
                                     - RowsOf(points_ledger, ClientChild)]
    ELSE client

---------------------------------------------------------------------------
(* The parent's cache utility over localStorage *)

\* cache keys of ParentHome: `children_${familyId}`
Keys == {"children_f1", "children_f2"}

\* cached query results: the children rows of a family
DataValues == {"[kid1]", "[kid1,kid2]"}

\* times to live, in clock steps
TTLs == {1, 2}

\* last value of Date.now()
MaxClock == 2

\* the localStorage key of a cache key: `cache_${key}`
StorageKey(key) == <<"cache_", key>>

StorageKeys == {StorageKey(k) : k \in Keys}

\* JSON.stringify of a CacheItem: the text of its three members in order
Stringify(item) ==
    <<"data", item.data, "timestamp", item.timestamp, "expiresAt", item.expiresAt>>

\* JSON.parse of a stored text
Parse(str) == [data |-> str[2], timestamp |-> str[4], expiresAt |-> str[6]]

\* localStorage.getItem of a key that holds nothing
NoItem == << >>

\* nothing stored under any key
EmptyStorage == [k \in StorageKeys |-> NoItem]

\* no set of the key since its last invalidate
NoEntry == [present |-> FALSE, data |-> NULL, expiresAt |-> 0]

\* no get has returned
NoReturn == [key |-> NULL, value |-> NULL]

\* no set, and no get, has been called
NoCacheLog == [called |-> [k \in Keys |-> NoEntry], stored |-> [k \in Keys |-> NoEntry],
               returned |-> NoReturn]

\* the cache utility is not in use
CacheUnused == localStorage = EmptyStorage /\ dateNow = 0 /\ cacheLog = NoCacheLog

parentCache == <<localStorage, dateNow, cacheLog>>

---------------------------------------------------------------------------
(* Evolution Slot Tracker *)

\* an exact NUMERIC progress percentage, kept as the fraction num / den (den > 0)
Percent(points, goal) ==
    IF goal > 0 THEN [num |-> points * 100, den |-> goal] ELSE [num |-> 0, den |-> 1]

\* mutant: the level is decided on the percentage truncated to an integer
calculate_character_level_truncated(progress_percent) ==
    LET p == progress_percent.num \div progress_percent.den IN
    IF p <= 0 THEN 1
    ELSE IF p <= 33 THEN 2
    ELSE IF p < 67 THEN 3
    ELSE IF p < 100 THEN 4
    ELSE 5

calculate_character_level(progress_percent) ==
    IF progress_percent.num <= 0 THEN 1
    ELSE IF progress_percent.num <= 33 * progress_percent.den THEN 2
    ELSE IF progress_percent.num < 67 * progress_percent.den THEN 3
    ELSE IF progress_percent.num < 100 * progress_percent.den THEN 4
    ELSE 5

\* mutant: the level columns default to 0
NewProgressRowZero(goal_number) ==
    [present |-> TRUE, slot1_level |-> 0, slot2_level |-> 0, slot3_level |-> 0,
     current_goal_number |-> goal_number]

\* a row of character_progress as INSERT creates it (column defaults)
NewProgressRow(goal_number) ==
    [present |-> TRUE, slot1_level |-> 1, slot2_level |-> 1, slot3_level |-> 1,
     current_goal_number |-> goal_number]

NoProgressRow ==
    [present |-> FALSE, slot1_level |-> 1, slot2_level |-> 1, slot3_level |-> 1,
     current_goal_number |-> 1]

\* INSERT INTO character_progress (child_id, current_goal_number) ... ON CONFLICT DO UPDATE
UpsertGoalNumber(row, goal_number) ==
    IF row.present THEN [row EXCEPT !.current_goal_number = goal_number]
    ELSE NewProgressRow(goal_number)

GREATEST(a, b) == IF a >= b THEN a ELSE b

SlotLevel(row, n) ==
    IF n = 1 THEN row.slot1_level ELSE IF n = 2 THEN row.slot2_level ELSE row.slot3_level

\* mutant: the level is overwritten with the computed level (no GREATEST)
update_character_progress_overwrite(row, child_goal_points, child_current_points, goal_count) ==
    LET current_slot == goal_count + 1
        new_level == calculate_character_level(Percent(child_current_points, child_goal_points))
        up == UpsertGoalNumber(row, current_slot)
    IN  IF current_slot > 3 THEN up
        ELSE IF current_slot = 1 THEN [up EXCEPT !.slot1_level = new_level]
        ELSE IF current_slot = 2 THEN [up EXCEPT !.slot2_level = new_level]
        ELSE [up EXCEPT !.slot3_level = new_level]

\* mutant: no cap after the third goal, and the last slot is written with the
\* computed level
update_character_progress_nocap(row, child_goal_points, child_current_points, goal_count) ==
    LET current_slot == goal_count + 1
        new_level == calculate_character_level(Percent(child_current_points, child_goal_points))
        up == UpsertGoalNumber(row, current_slot)
    IN  IF current_slot = 1 THEN [up EXCEPT !.slot1_level = GREATEST(@, new_level)]
        ELSE IF current_slot = 2 THEN [up EXCEPT !.slot2_level = GREATEST(@, new_level)]
        ELSE [up EXCEPT !.slot3_level = new_level]

\* trigger function update_character_progress: the character_progress row of
\* NEW.child_id after an insert into points_ledger
update_character_progress(row, child_goal_points, child_current_points, goal_count) ==
    LET current_slot == goal_count + 1
        new_level == calculate_character_level(Percent(child_current_points, child_goal_points))
        up == UpsertGoalNumber(row, current_slot)
    IN  IF current_slot > 3 THEN up
        ELSE IF current_slot = 1 THEN [up EXCEPT !.slot1_level = GREATEST(@, new_level)]
        ELSE IF current_slot = 2 THEN [up EXCEPT !.slot2_level = GREATEST(@, new_level)]
        ELSE IF current_slot = 3 THEN [up EXCEPT !.slot3_level = GREATEST(@, new_level)]
        ELSE up

\* mutant: the index is advanced first and level 5 is written to the slot it
\* then names
on_goal_achieved_next_slot(row, goal_count) ==
    LET slot_number == goal_count
        up == UpsertGoalNumber(row, slot_number + 1)
    IN  IF slot_number > 3 THEN row
        ELSE IF up.current_goal_number = 2 THEN [up EXCEPT !.slot2_level = 5]
        ELSE IF up.current_goal_number = 3 THEN [up EXCEPT !.slot3_level = 5]
        ELSE up

\* mutant: the index is advanced and no level is written
on_goal_achieved_no_force(row, goal_count) ==
    LET slot_number == goal_count
    IN  IF slot_number > 3 THEN row ELSE UpsertGoalNumber(row, slot_number + 1)

\* trigger function on_goal_achieved_update_character: the character_progress row
\* of NEW.child_id after an insert into goal_history (goal_count includes the new row)
on_goal_achieved_update_character(row, goal_count) ==
    LET slot_number == goal_count
        up == UpsertGoalNumber(row, slot_number + 1)
    IN  IF slot_number > 3 THEN row
        ELSE IF slot_number = 1 THEN [up EXCEPT !.slot1_level = 5]
        ELSE IF slot_number = 2 THEN [up EXCEPT !.slot2_level = 5]
        ELSE IF slot_number = 3 THEN [up EXCEPT !.slot3_level = 5]
        ELSE up

---------------------------------------------------------------------------
(* Goal-Achievement Detector, Achievement Recorder, Rollover (specification 4.2, 4.3) *)

\* step 3: a goal_history row of the child with the same balance, achieved
\* within the dedup window of now
IsDuplicate(history, c, balance, t) ==
    \E i \in 1..Len(history) :
        /\ history[i].child_id = c
        /\ history[i].points_at_achievement = balance
        /\ t - history[i].achieved_at <= DedupWindowSecs

\* mutant: any positive balance counts as reaching the goal
CrossedIgnoresThreshold(c) ==
    LET balance == SumFor(points_ledger, c)
        goal_threshold == children[c].goal_points
    IN  /\ goal_threshold > 0
        /\ balance > 0
        /\ ~IsDuplicate(goal_history, c, balance, now)

\* mutant: the threshold is not required to be positive
CrossedAnyThreshold(c) ==
    LET balance == SumFor(points_ledger, c)
        goal_threshold == children[c].goal_points
    IN  /\ balance >= goal_threshold
        /\ ~IsDuplicate(goal_history, c, balance, now)

\* steps 1-3: whether an invocation of the detector performs an achievement
Crossed(c) ==
    LET balance == SumFor(points_ledger, c)
        goal_threshold == children[c].goal_points
    IN  /\ goal_threshold > 0
        /\ balance >= goal_threshold
        /\ ~IsDuplicate(goal_history, c, balance, now)

HistoryRow(c) ==
    [child_id |-> c, goal_points |-> children[c].goal_points, reward |-> children[c].reward,
     points_at_achievement |-> SumFor(points_ledger, c), achieved_at |-> now]

\* 4.3: the compensating ledger entry
RolloverRow(c) == LedgerRow(c, -children[c].goal_points, "goal_achieved_reset", NULL)

\* mutant: the achievement writes the history row and no rollover entry
LedgerAfterAchievementNoRollover(c) == points_ledger

\* mutant: past the third goal the achievement writes no rollover entry
LedgerAfterAchievementCapped(c) ==
    IF GoalCount(goal_history, c) >= 3 THEN points_ledger
    ELSE Append(points_ledger, RolloverRow(c))

\* mutant: the rollover entry replaces the last row of the ledger
LedgerAfterAchievementOverwrite(c) ==
    [points_ledger EXCEPT ![Len(points_ledger)] = RolloverRow(c)]

\* mutant: the rollover is repeated while the balance still reaches the threshold
LedgerAfterAchievementRepeated(c) ==
    LET once == Append(points_ledger, RolloverRow(c))
    IN  IF SumFor(once, c) >= children[c].goal_points THEN Append(once, RolloverRow(c))
        ELSE once

\* step 4: points_ledger after the achievement
LedgerAfterAchievement(c) == Append(points_ledger, RolloverRow(c))

\* step 4, one atomic unit: goal_history row (and its trigger), then the rollover
\* entry (and the points_ledger trigger).  A failure of any step leaves nothing
\* applied (a stuttering step) and the detection stays due.
Achieve(c) ==
    LET history2 == Append(goal_history, HistoryRow(c))
        row1 == on_goal_achieved_update_character(character_progress[c], GoalCount(history2, c))
        ledger2 == LedgerAfterAchievement(c)
        row2 == IF ledger2 = points_ledger THEN row1
                ELSE update_character_progress(row1, children[c].goal_points,
                                               SumFor(ledger2, c), GoalCount(history2, c))
    IN  /\ goal_history' = history2
        /\ points_ledger' = ledger2
        /\ character_progress' = [character_progress EXCEPT ![c] = row2]
        /\ appended' = [appended EXCEPT ![c] =
               @ + (IF ledger2 = points_ledger THEN 0 ELSE ledger2[Len(ledger2)].delta)]

\* one invocation of the detector for child c; invocations for one child are
\* serialized (section 5), so an invocation is one step
Detector(c) ==
    IF Crossed(c)
    THEN Achieve(c) /\ lastFired' = c
    ELSE /\ UNCHANGED <<goal_history, points_ledger, character_progress, appended>>
         /\ lastFired' = NoChild

---------------------------------------------------------------------------
(* Operations *)

\* rows of points_ledger written by approvals and manual adjustments
RECURSIVE ExternalRows(_)
ExternalRows(rows) ==
    IF rows = << >> THEN 0
    ELSE (IF Head(rows).reason # "goal_achieved_reset" THEN 1 ELSE 0) + ExternalRows(Tail(rows))

TotalAppends == ExternalRows(points_ledger)

\* INSERT INTO points_ledger of one row, with its AFTER INSERT trigger
\* on_points_change_update_character; the detection sequence is then due
InsertLedger(row) ==
    LET c == row.child_id
        ledger2 == Append(points_ledger, row)
    IN  /\ points_ledger' = ledger2
        /\ character_progress' = [character_progress EXCEPT ![c] =
               update_character_progress(@, children[c].goal_points, SumFor(ledger2, c),
                                         GoalCount(goal_history, c))]
        /\ pending' = [pending EXCEPT ![c] = @ + 1]
        /\ appended' = [appended EXCEPT ![c] = @ + row.delta]

\* ChildUpload: INSERT INTO submissions ... status 'pending'
CreateSubmission(s, chore) ==
    /\ submissions[s].status = "none"
    /\ submissions' = [submissions EXCEPT ![s] = [status |-> "pending", chore_id |-> chore]]
    /\ lastFired' = NoChild
    /\ alert' = FALSE
    /\ UNCHANGED <<points_ledger, goal_history, character_progress, children, now, pending,
                   appended>>
    /\ UNCHANGED client
    /\ UNCHANGED parentCache

\* update_child_points: the points of the submission's chore, or 10
PointsValue(chore_id) == IF chore_id = NULL THEN DefaultChorePoints ELSE ChorePoints(chore_id)

\* update_child_points: IF NEW.status = 'approved' AND (OLD.status IS NULL OR OLD.status != 'approved')
AwardsPoints(old_status, new_status) ==
    new_status = "approved" /\ old_status # "approved"

\* handleApprove: UPDATE submissions SET status = 'approved' WHERE id = s, with the
\* trigger update_child_points
Approve(s) ==
    LET c == SubChild(s) IN
    /\ submissions[s].status # "none"
    /\ submissions' = [submissions EXCEPT ![s].status = "approved"]
    /\ lastFired' = NoChild
    /\ alert' = FALSE
    /\ IF AwardsPoints(submissions[s].status, "approved")
       THEN /\ TotalAppends < MaxAppends
            /\ InsertLedger(LedgerRow(c, PointsValue(submissions[s].chore_id), "chore_approved", s))
            /\ children' = [children EXCEPT ![c].points = SumFor(points_ledger', c)]
            /\ UNCHANGED <<goal_history, now>>
       ELSE UNCHANGED <<points_ledger, goal_history, character_progress, children, now,
                        pending, appended>>
    /\ client' = Notified(points_ledger')
    /\ UNCHANGED parentCache

\* handleReject: UPDATE submissions SET status = 'rejected' WHERE id = s
\* mutant: a rejection takes the chore's points back with a row of its own
RejectTakesBack(s) ==
    /\ submissions[s].status # "none"
    /\ TotalAppends < MaxAppends
    /\ submissions' = [submissions EXCEPT ![s].status = "rejected"]
    /\ InsertLedger(LedgerRow(SubChild(s), 0 - PointsValue(submissions[s].chore_id),
                              "chore_rejected", s))
    /\ lastFired' = NoChild
    /\ alert' = FALSE
    /\ UNCHANGED <<goal_history, children, now>>
    /\ client' = Notified(points_ledger')
    /\ UNCHANGED parentCache

Reject(s) ==
    /\ submissions[s].status # "none"
    /\ submissions' = [submissions EXCEPT ![s].status = "rejected"]
    /\ lastFired' = NoChild
    /\ alert' = FALSE
    /\ UNCHANGED <<points_ledger, goal_history, character_progress, children, now, pending,
                   appended>>
    /\ UNCHANGED client
    /\ UNCHANGED parentCache

\* Append(childID, delta, manual_adjustment): a row inserted into points_ledger directly
ManualAppend(c, d) ==
    /\ TotalAppends < MaxAppends
    /\ InsertLedger(LedgerRow(c, d, "manual_adjustment", NULL))
    /\ lastFired' = NoChild
    /\ alert' = FALSE
    /\ UNCHANGED <<goal_history, children, submissions, now>>
    /\ client' = Notified(points_ledger')
    /\ UNCHANGED parentCache

\* mutant: the invocation runs and the detection is never taken off the due list
DetectStaysDue(c) ==
    /\ pending[c] > 0
    /\ Detector(c)
    /\ alert' = FALSE
    /\ UNCHANGED <<children, submissions, now, pending>>
    /\ client' = Notified(points_ledger')
    /\ UNCHANGED parentCache

\* the detection sequence due after an append
Detect(c) ==
    /\ pending[c] > 0
    /\ Detector(c)
    /\ pending' = [pending EXCEPT ![c] = @ - 1]
    /\ alert' = FALSE
    /\ UNCHANGED <<children, submissions, now>>
    /\ client' = Notified(points_ledger')
    /\ UNCHANGED parentCache

\* an invocation of the detector that is delivered again later (at-least-once
\* delivery): the detection stays due
Redeliver(c) ==
    /\ pending[c] > 0
    /\ Detector(c)
    /\ alert' = FALSE
    /\ UNCHANGED <<children, submissions, now, pending>>
    /\ client' = Notified(points_ledger')
    /\ UNCHANGED parentCache

\* mutant: the saved goal is also written into the goal_history rows of the child
SaveChildSettingsRewritesHistory(c, g) ==
    /\ children[c].goal_points # g.goal_points \/ children[c].reward # g.reward
    /\ children' = [children EXCEPT ![c].goal_points = g.goal_points, ![c].reward = g.reward]
    /\ goal_history' = [i \in 1..Len(goal_history) |->
           IF goal_history[i].child_id = c
           THEN [goal_history[i] EXCEPT !.goal_points = g.goal_points, !.reward = g.reward]
           ELSE goal_history[i]]
    /\ lastFired' = NoChild
    /\ alert' = FALSE
    /\ UNCHANGED <<points_ledger, character_progress, submissions, now, pending, appended>>
    /\ UNCHANGED client
    /\ UNCHANGED parentCache

\* handleSaveChildSettings: UPDATE children SET goal_points, reward
SaveChildSettings(c, g) ==
    /\ children[c].goal_points # g.goal_points \/ children[c].reward # g.reward
    /\ children' = [children EXCEPT ![c].goal_points = g.goal_points, ![c].reward = g.reward]
    /\ lastFired' = NoChild
    /\ alert' = FALSE
    /\ UNCHANGED <<points_ledger, goal_history, character_progress, submissions, now, pending,
                   appended>>
    /\ UNCHANGED client
    /\ UNCHANGED parentCache

\* time passes; the clock is advanced only while some goal_history row is still
\* inside the dedup window (otherwise the advance changes no later outcome)
Tick ==
    /\ now < MaxTicks * TickSecs
    /\ \E i \in 1..Len(goal_history) : now - goal_history[i].achieved_at <= DedupWindowSecs
    /\ now' = now + TickSecs
    /\ lastFired' = NoChild
    /\ alert' = FALSE
    /\ UNCHANGED <<points_ledger, goal_history, character_progress, children, submissions,
                   pending, appended>>
    /\ UNCHANGED client
    /\ UNCHANGED parentCache

Init ==
    /\ points_ledger = << >>
    /\ goal_history = << >>
    /\ character_progress = [c \in Children |-> NoProgressRow]
    /\ children = [c \in Children |->
                     [goal_points |-> DefaultGoalPoints, reward |-> NULL, points |-> 0]]
    /\ submissions = [s \in Submissions |-> [status |-> "none", chore_id |-> NULL]]
    /\ now = 0
    /\ pending = [c \in Children |-> 0]
    /\ lastFired = NoChild
    /\ appended = [c \in Children |-> 0]
    /\ alert = FALSE
    /\ CacheUnused
    /\ client = ClientClosed

Next ==
    \/ \E s \in Submissions, chore \in ChoreIds : CreateSubmission(s, chore)
    \/ \E s \in Submissions : Approve(s)
    \/ \E s \in Submissions : Reject(s)
    \/ \E c \in Active, d \in ManualDeltas : ManualAppend(c, d)
    \/ \E c \in Active : Detect(c)
    \/ \E c \in Active : Redeliver(c)
    \/ \E c \in Active, g \in GoalConfigs : SaveChildSettings(c, g)
    \/ Tick

Spec == Init /\ [][Next]_vars

\* the same operations with the goal settings left as created
NextFixed ==
    \/ \E s \in Submissions, chore \in ChoreIds : CreateSubmission(s, chore)
    \/ \E s \in Submissions : Approve(s)
    \/ \E s \in Submissions : Reject(s)
    \/ \E c \in Active, d \in ManualDeltas : ManualAppend(c, d)
    \/ \E c \in Active : Detect(c)
    \/ \E c \in Active : Redeliver(c)
    \/ Tick

SpecFixed == Init /\ [][NextFixed]_vars

---------------------------------------------------------------------------
(* Storage failures *)

\* mutant: the failure of the ledger insert is swallowed by the trigger and the
\* status update goes through
SubmissionsAfterSwallowedFailure(s) == [submissions EXCEPT ![s].status = "approved"]

\* the INSERT INTO points_ledger of update_child_points raises: the trigger has
\* no exception handler, the UPDATE of the submission is rolled back with it
SubmissionsAfterFailedApproval(s) == submissions

\* handleApprove when the ledger insert of the trigger fails: the update
\* returns an error, which is thrown and shown by alert()
ApproveFails(s) ==
    /\ submissions[s].status # "none"
    /\ AwardsPoints(submissions[s].status, "approved")
    /\ submissions' = SubmissionsAfterFailedApproval(s)
    /\ alert' = TRUE
    /\ lastFired' = NoChild
    /\ UNCHANGED <<points_ledger, goal_history, character_progress, children, now, pending,
                   appended>>
    /\ UNCHANGED client
    /\ UNCHANGED parentCache

\* an invocation of the detector whose achievement fails after the
\* goal_history row (and its trigger) is written and before the rollover entry
\* is appended (section 7); the detection stays due
AchieveFails(c) ==
    LET history2 == Append(goal_history, HistoryRow(c)) IN
    /\ pending[c] > 0
    /\ Crossed(c)
    /\ goal_history' = history2
    /\ character_progress' = [character_progress EXCEPT ![c] =
           on_goal_achieved_update_character(@, GoalCount(history2, c))]
    /\ lastFired' = NoChild
    /\ alert' = FALSE
    /\ UNCHANGED <<points_ledger, children, submissions, now, pending, appended>>
    /\ UNCHANGED client
    /\ UNCHANGED parentCache

NextFailure ==
    \/ \E s \in Submissions, chore \in ChoreIds : CreateSubmission(s, chore)
    \/ \E s \in Submissions : Approve(s)
    \/ \E s \in Submissions : Reject(s)
    \/ \E c \in Active, d \in ManualDeltas : ManualAppend(c, d)
    \/ \E c \in Active : Detect(c)
    \/ \E c \in Active : Redeliver(c)
    \/ Tick
    \/ \E s \in Submissions : ApproveFails(s)
    \/ \E c \in Active : AchieveFails(c)

SpecFailure == Init /\ [][NextFailure]_vars

---------------------------------------------------------------------------
(* Helpers of the properties *)

\* the last goal_history row of child c (c has at least one)
LastGoal(c) ==
    LET idx == { i \in 1..Len(goal_history) : goal_history[i].child_id = c }
    IN  goal_history[CHOOSE i \in idx : \A j \in idx : j <= i]

\* the level update_character_progress computes for child c's present balance
ComputedLevel(c) ==
    calculate_character_level(Percent(SumFor(points_ledger, c), children[c].goal_points))

\* a step in which the detector is invoked for child c
DetectorStep(c) == Detect(c) \/ Redeliver(c)

\* a step that writes a goal_history row for child c
AchievementStep(c) ==
    /\ Len(goal_history') = Len(goal_history) + 1
    /\ goal_history'[Len(goal_history')].child_id = c

---------------------------------------------------------------------------
(* C1: for every sequence of appends for a child, in any order and under any
   interleaving, SumFor(child) equals the arithmetic sum of all deltas appended
   for that child, and it is 0 for a child with no entries. *)
C1_SumInvariant ==
    \A c \in Children :
        /\ SumFor(points_ledger, c) = appended[c]
        /\ RowsOf(points_ledger, c) = 0 => SumFor(points_ledger, c) = 0

\* a ledger holding a credit, a negative adjustment and a rollover of one child
C1_Witness ==
    /\ CountRows(points_ledger, "c1", "goal_achieved_reset") >= 1
    /\ \E i \in 1..Len(points_ledger) :
          points_ledger[i].reason = "manual_adjustment" /\ points_ledger[i].delta < 0
    /\ SumFor(points_ledger, "c1") # 0

(* C2, as stated: an invocation of the detector that directly follows an
   invocation that performed an achievement for the same child (no append in
   between) changes nothing: one goal_history row and one rollover entry. *)
C2_Original ==
    [][\A c \in Children :
          (lastFired = c /\ DetectorStep(c)) =>
              /\ goal_history' = goal_history
              /\ points_ledger' = points_ledger
              /\ character_progress' = character_progress]_vars

(* C2, amended: when the balance B at the achievement was below twice the
   threshold T, the detector invocation that directly follows changes nothing. *)
C2_IdempotentBelowTwice ==
    [][\A c \in Children :
          (/\ lastFired = c
           /\ DetectorStep(c)
           /\ LastGoal(c).points_at_achievement < 2 * LastGoal(c).goal_points) =>
              /\ goal_history' = goal_history
              /\ points_ledger' = points_ledger
              /\ character_progress' = character_progress]_vars

\* an achievement at B < 2T has just been performed and the detection is still due
C2_Witness ==
    /\ lastFired = "c1"
    /\ pending["c1"] > 0
    /\ LastGoal("c1").points_at_achievement < 2 * LastGoal("c1").goal_points
    /\ GoalCount(goal_history, "c1") = 1

(* C3: an achievement with threshold T at balance B >= T appends exactly one
   ledger entry, with delta -T and reason goal_achieved_reset, and leaves the
   ledger sum at B - T; the history row records B and T. *)
C3_RolloverCorrect ==
    [][\A c \in Children :
          AchievementStep(c) =>
              LET T == children[c].goal_points
                  B == SumFor(points_ledger, c)
              IN  /\ T > 0 /\ B >= T
                  /\ points_ledger' =
                        Append(points_ledger, LedgerRow(c, -T, "goal_achieved_reset", NULL))
                  /\ SumFor(points_ledger', c) = B - T
                  /\ LastGoal(c)'.points_at_achievement = B
                  /\ LastGoal(c)'.goal_points = T]_vars

\* an achievement has just rolled over and an overshoot is carried forward
C3_Witness ==
    /\ lastFired = "c1"
    /\ points_ledger[Len(points_ledger)].reason = "goal_achieved_reset"
    /\ SumFor(points_ledger, "c1") > 0
    /\ SumFor(points_ledger, "c1") < children["c1"].goal_points

(* C4: the stored level of each of the three slots of a child never decreases
   from one state to the next, whatever the deltas appended. *)
C4_LevelMonotonic ==
    [][\A c \in Children : \A n \in 1..3 :
          SlotLevel(character_progress'[c], n) >= SlotLevel(character_progress[c], n)]_vars

\* the current slot keeps a level above the one its present balance computes,
\* after a negative entry lowered the balance
C4_Witness ==
    /\ character_progress["c1"].present
    /\ character_progress["c1"].current_goal_number <= 3
    /\ SlotLevel(character_progress["c1"], character_progress["c1"].current_goal_number)
          > ComputedLevel("c1")
    /\ points_ledger[Len(points_ledger)].delta < 0
    /\ points_ledger[Len(points_ledger)].reason = "manual_adjustment"

(* C5: once a child has three or more goal_history rows, no step (append,
   rollover, further achievement) changes the level of slot 1, 2 or 3, and the
   record never has a fourth slot. *)
C5_SlotCap ==
    [][\A c \in Children :
          GoalCount(goal_history, c) >= 3 =>
              /\ \A n \in 1..3 :
                    SlotLevel(character_progress'[c], n) = SlotLevel(character_progress[c], n)
              /\ DOMAIN character_progress'[c] =
                    {"present", "slot1_level", "slot2_level", "slot3_level", "current_goal_number"}]_vars

\* the fourth achievement has been recorded and rolled over
C5_Witness ==
    /\ GoalCount(goal_history, "c1") = 4
    /\ CountRows(points_ledger, "c1", "goal_achieved_reset") = 4
    /\ character_progress["c1"].slot3_level = 5

\* rows of child c written by approvals and manual adjustments, and their sum
RECURSIVE ExternalRowsOf(_, _)
ExternalRowsOf(rows, c) ==
    IF rows = << >> THEN 0
    ELSE (IF Head(rows).child_id = c /\ Head(rows).reason # "goal_achieved_reset" THEN 1 ELSE 0)
         + ExternalRowsOf(Tail(rows), c)

RECURSIVE ExternalSum(_, _)
ExternalSum(rows, c) ==
    IF rows = << >> THEN 0
    ELSE (IF Head(rows).child_id = c /\ Head(rows).reason # "goal_achieved_reset"
          THEN Head(rows).delta ELSE 0)
         + ExternalSum(Tail(rows), c)

\* rows of child c that took its running balance from below T to T or more
RECURSIVE CrossingsFrom(_, _, _, _)
CrossingsFrom(rows, c, T, balance) ==
    IF rows = << >> THEN 0
    ELSE IF Head(rows).child_id # c THEN CrossingsFrom(Tail(rows), c, T, balance)
    ELSE (IF balance < T /\ balance + Head(rows).delta >= T THEN 1 ELSE 0)
         + CrossingsFrom(Tail(rows), c, T, balance + Head(rows).delta)

Crossings(rows, c, T) == CrossingsFrom(rows, c, T, 0)

\* chore_approved rows that reference submission s
RECURSIVE ApprovalRows(_, _)
ApprovalRows(rows, s) ==
    IF rows = << >> THEN 0
    ELSE (IF Head(rows).reason = "chore_approved" /\ Head(rows).submission_id = s THEN 1 ELSE 0)
         + ApprovalRows(Tail(rows), s)

(* C6: two appends for one child whose detection sequences run in any order
   relative to the appends and to each other, with the appended total in
   [T, 2T) for a positive threshold T (one crossing): once both detections
   have run there is exactly one goal_history row, one rollover entry, and
   the current slot index has advanced by one, to 2. *)
C6_ConcurrentOneCrossing ==
    \A c \in Children :
        LET T == children[c].goal_points
            total == ExternalSum(points_ledger, c)
        IN  (/\ pending[c] = 0
             /\ ExternalRowsOf(points_ledger, c) = 2
             /\ T > 0 /\ T <= total /\ total < 2 * T) =>
                /\ GoalCount(goal_history, c) = 1
                /\ CountRows(points_ledger, c, "goal_achieved_reset") = 1
                /\ character_progress[c].current_goal_number = 2

\* both appends were recorded before the detection that performed the
\* achievement, neither reaches the threshold alone, and both detections have run
C6_Witness ==
    /\ Len(points_ledger) = 3
    /\ points_ledger[1].reason # "goal_achieved_reset"
    /\ points_ledger[2].reason # "goal_achieved_reset"
    /\ points_ledger[1].delta < children["c1"].goal_points
    /\ points_ledger[2].delta < children["c1"].goal_points
    /\ points_ledger[3].reason = "goal_achieved_reset"
    /\ pending["c1"] = 0
    /\ GoalCount(goal_history, "c1") = 1

(* C7: the goal_history row and the rollover entry of an achievement are
   written together or not at all: each child has as many goal_history rows
   as goal_achieved_reset ledger rows. *)
C7_HistoryWithRollover ==
    \A c \in Children :
        GoalCount(goal_history, c) = CountRows(points_ledger, c, "goal_achieved_reset")

\* two achievements have been recorded
C7_Witness ==
    /\ GoalCount(goal_history, "c1") = 2
    /\ CountRows(points_ledger, "c1", "goal_achieved_reset") = 2

(* C8, as stated: once every due detection has run, the number of goal_history
   rows of a child equals the number of times its balance reached or exceeded
   the threshold from below. *)
C8_Original ==
    \A c \in Children :
        pending[c] = 0 =>
            GoalCount(goal_history, c) = Crossings(points_ledger, c, children[c].goal_points)

(* C9, as stated: a submission never has two chore_approved ledger rows, and
   an approved submission has exactly one. *)
C9_Original ==
    \A s \in Submissions :
        /\ ApprovalRows(points_ledger, s) <= 1
        /\ submissions[s].status = "approved" => ApprovalRows(points_ledger, s) = 1

(* C10, as stated: the stored children.points of every child equals the sum of
   the child's ledger deltas. *)
C10_Original ==
    \A c \in Children : children[c].points = SumFor(points_ledger, c)

---------------------------------------------------------------------------
(* The example scenario of section 8: threshold 100, credits of +10 five
   times, then +60, then +5, each followed by its detection sequence *)

ScenarioDeltas == <<10, 10, 10, 10, 10, 60, 5>>

\* the next credit of the scenario for child c, appended once the detection of
\* the previous one has run
ScenarioAppend(c) ==
    LET n == ExternalRowsOf(points_ledger, c) IN
    /\ n < Len(ScenarioDeltas)
    /\ pending[c] = 0
    /\ InsertLedger(LedgerRow(c, ScenarioDeltas[n + 1], "manual_adjustment", NULL))
    /\ lastFired' = NoChild
    /\ alert' = FALSE
    /\ UNCHANGED <<goal_history, children, submissions, now>>
    /\ client' = Notified(points_ledger')
    /\ UNCHANGED parentCache

NextScenario ==
    \/ \E c \in Children : ScenarioAppend(c)
    \/ \E c \in Children : Detect(c)
    \/ \E c \in Children : Redeliver(c)

SpecScenario == Init /\ [][NextScenario]_vars

(* C11: with threshold 100 and a child starting at 0, after five credits of
   +10 and one of +60 and their detections there is exactly one goal_history
   row, with points_at_achievement 110, one ledger row of -100, ledger sum 10,
   slot 1 at level 5 and current_goal_number 2; after the following credit of
   +5 the sum is 15, slot 2 is at level 2, slot 1 still 5 and slot 3 still 1. *)
C11_ScenarioTrace ==
    \A c \in Children :
        LET n == ExternalRowsOf(points_ledger, c) IN
        /\ (n = 6 /\ pending[c] = 0) =>
              /\ GoalCount(goal_history, c) = 1
              /\ LastGoal(c).points_at_achievement = 110
              /\ LastGoal(c).goal_points = 100
              /\ CountRows(points_ledger, c, "goal_achieved_reset") = 1
              /\ \E i \in 1..Len(points_ledger) :
                    points_ledger[i] = LedgerRow(c, -100, "goal_achieved_reset", NULL)
              /\ SumFor(points_ledger, c) = 10
              /\ character_progress[c].slot1_level = 5
              /\ character_progress[c].current_goal_number = 2
        /\ n = 7 =>
              /\ GoalCount(goal_history, c) = 1
              /\ SumFor(points_ledger, c) = 15
              /\ character_progress[c].slot2_level = 2
              /\ character_progress[c].slot1_level = 5
              /\ character_progress[c].slot3_level = 1
              /\ character_progress[c].current_goal_number = 2

\* the whole scenario has run for a child, the last detection included
C11_Witness ==
    /\ ExternalRowsOf(points_ledger, "c1") = 7
    /\ pending["c1"] = 0
    /\ points_ledger[Len(points_ledger)] = LedgerRow("c1", 5, "manual_adjustment", NULL)
    /\ GoalCount(goal_history, "c1") = 1

---------------------------------------------------------------------------
(* The level computation applied to every balance and threshold of a range:
   one row is inserted into the empty ledger of a child with no goal_history,
   so that slot 1 holds GREATEST(1, computed level) *)

LevelGoals == -1..MaxLevelGoal
LevelPoints == -1..MaxLevelPoints

InitLevel ==
    /\ points_ledger = << >>
    /\ goal_history = << >>
    /\ character_progress = [c \in Children |-> NoProgressRow]
    /\ \E g \in LevelGoals :
          children = [c \in Children |-> [goal_points |-> g, reward |-> NULL, points |-> 0]]
    /\ submissions = [s \in Submissions |-> [status |-> "none", chore_id |-> NULL]]
    /\ now = 0
    /\ pending = [c \in Children |-> 0]
    /\ lastFired = NoChild
    /\ appended = [c \in Children |-> 0]
    /\ alert = FALSE
    /\ CacheUnused
    /\ client = ClientClosed

LevelAppend(c, d) ==
    /\ RowsOf(points_ledger, c) = 0
    /\ InsertLedger(LedgerRow(c, d, "manual_adjustment", NULL))
    /\ lastFired' = NoChild
    /\ alert' = FALSE
    /\ UNCHANGED <<goal_history, children, submissions, now>>
    /\ client' = Notified(points_ledger')
    /\ UNCHANGED parentCache

NextLevel == \E c \in Active, d \in LevelPoints : LevelAppend(c, d)

SpecLevel == InitLevel /\ [][NextLevel]_vars

(* C12: the computed level is a function of progressPercent = 100 * balance /
   threshold, taken as 0 when the threshold is <= 0: level 1 when p <= 0,
   2 when 0 < p <= 33, 3 when 33 < p < 67, 4 when 67 <= p < 100, 5 when
   p >= 100; exactly one case applies, and the cases are decided on the exact
   ratio (1 of 3 is level 3, 67 of 100 is level 4). *)
C12_LevelFunction ==
    \A c \in Children :
        (character_progress[c].present /\ RowsOf(points_ledger, c) = 1
                                       /\ GoalCount(goal_history, c) = 0) =>
            LET B == SumFor(points_ledger, c)
                T == children[c].goal_points
                \* comparisons of p = 100 * B / T with a bound k, for T > 0
                AtMost(k) == IF T > 0 THEN 100 * B <= k * T ELSE 0 <= k
                Below(k) == IF T > 0 THEN 100 * B < k * T ELSE 0 < k
                case == [l \in 1..5 |->
                           IF l = 1 THEN AtMost(0)
                           ELSE IF l = 2 THEN ~AtMost(0) /\ AtMost(33)
                           ELSE IF l = 3 THEN ~AtMost(33) /\ Below(67)
                           ELSE IF l = 4 THEN ~Below(67) /\ Below(100)
                           ELSE ~Below(100)]
                level == character_progress[c].slot1_level
            IN  /\ Cardinality({l \in 1..5 : case[l]}) = 1
                /\ case[level]
                /\ (B = 1 /\ T = 3) => level = 3
                /\ (B = 67 /\ T = 100) => level = 4

\* the level of a ratio whose truncated percentage is 33 has been computed
C12_Witness ==
    /\ RowsOf(points_ledger, "c1") = 1
    /\ SumFor(points_ledger, "c1") = 1
    /\ children["c1"].goal_points = 3
    /\ character_progress["c1"].slot1_level = 3

---------------------------------------------------------------------------
(* C13: when the Nth goal_history row of a child is written (N <= 3), slot N,
   the slot that was current before the advance, is at level 5 whatever its
   stored level and the balance, current_goal_number becomes N + 1, and
   slot N + 1 is not given the forced level: it holds the level computed for
   the balance that the rollover leaves. *)
C13_ForcedLevelFive ==
    [][\A c \in Children :
          (AchievementStep(c) /\ GoalCount(goal_history', c) <= 3) =>
              LET N == GoalCount(goal_history', c)
                  T == children[c].goal_points
                  B == SumFor(points_ledger, c)
              IN  /\ N = GoalCount(goal_history, c) + 1
                  /\ SlotLevel(character_progress'[c], N) = 5
                  /\ character_progress'[c].current_goal_number = N + 1
                  /\ N < 3 =>
                        SlotLevel(character_progress'[c], N + 1) =
                            GREATEST(SlotLevel(character_progress[c], N + 1),
                                     calculate_character_level(Percent(B - T, T)))]_vars

\* the second goal has just been achieved: slot 2 is at level 5, slot 3 is the
\* current slot and holds a lower level
C13_Witness ==
    /\ lastFired = "c1"
    /\ GoalCount(goal_history, "c1") = 2
    /\ character_progress["c1"].slot2_level = 5
    /\ character_progress["c1"].current_goal_number = 3
    /\ character_progress["c1"].slot3_level < 5

---------------------------------------------------------------------------
(* C14, as stated: in every reachable state in which the character_progress
   row of a child exists, its current_goal_number equals the number of
   goal_history rows of the child plus one, also when that number is 3 or
   more. *)
C14_Original ==
    \A c \in Children :
        character_progress[c].present =>
            character_progress[c].current_goal_number = GoalCount(goal_history, c) + 1

(* C15: an achievement is performed only when the threshold is positive and
   the balance has reached it: every goal_history row has
   points_at_achievement >= goal_points > 0, and while the threshold of a
   child is <= 0 no step writes a goal_history row or a rollover entry for
   the child or raises one of its slot levels. *)
C15_NoGoalNoAchievement ==
    /\ [](\A i \in 1..Len(goal_history) :
             /\ goal_history[i].goal_points > 0
             /\ goal_history[i].points_at_achievement >= goal_history[i].goal_points)
    /\ [][\A c \in Children :
             children[c].goal_points <= 0 =>
                 /\ GoalCount(goal_history', c) = GoalCount(goal_history, c)
                 /\ CountRows(points_ledger', c, "goal_achieved_reset") =
                       CountRows(points_ledger, c, "goal_achieved_reset")
                 /\ \A n \in 1..3 : SlotLevel(character_progress'[c], n) =
                                       SlotLevel(character_progress[c], n)]_vars

\* a child without an active goal received points above every goal of the
\* model and its detection has run: no history, all slots at level 1
C15_Witness ==
    /\ children["c1"].goal_points <= 0
    /\ SumFor(points_ledger, "c1") >= 300
    /\ pending["c1"] = 0
    /\ character_progress["c1"].present
    /\ GoalCount(goal_history, "c1") = 0
    /\ \A n \in 1..3 : SlotLevel(character_progress["c1"], n) = 1

(* C16: the slot cap leaves the ledger and goal mechanics alone: the 4th and
   every later achievement of a child writes one goal_history row, recording
   the balance B and the threshold T, and one rollover entry of -T, and the
   ledger sum after it is B - T. *)
C16_CapLeavesLedger ==
    [][\A c \in Children :
          (Crossed(c) /\ DetectorStep(c) /\ GoalCount(goal_history, c) >= 3) =>
              LET T == children[c].goal_points
                  B == SumFor(points_ledger, c)
              IN  /\ Len(goal_history') = Len(goal_history) + 1
                  /\ SubSeq(goal_history', 1, Len(goal_history)) = goal_history
                  /\ goal_history'[Len(goal_history')] =
                        [child_id |-> c, goal_points |-> T, reward |-> children[c].reward,
                         points_at_achievement |-> B, achieved_at |-> now]
                  /\ points_ledger' =
                        Append(points_ledger, LedgerRow(c, -T, "goal_achieved_reset", NULL))
                  /\ SumFor(points_ledger', c) = B - T]_vars

\* the fourth achievement has just been performed and emptied the balance
C16_Witness ==
    /\ lastFired = "c1"
    /\ GoalCount(goal_history, "c1") = 4
    /\ points_ledger[Len(points_ledger)].reason = "goal_achieved_reset"
    /\ SumFor(points_ledger, "c1") = 0
    /\ character_progress["c1"].current_goal_number = 5

(* C17, as stated: when an achievement has failed after its goal_history row
   was written and before its rollover entry was appended, the next detector
   invocation for the child appends the missing rollover entry and writes no
   further goal_history row, also within the dedup window and at the same
   balance. *)
C17_Original ==
    [][\A c \in Children :
          (/\ DetectorStep(c)
           /\ GoalCount(goal_history, c) > CountRows(points_ledger, c, "goal_achieved_reset")) =>
              /\ CountRows(points_ledger', c, "goal_achieved_reset") =
                    CountRows(points_ledger, c, "goal_achieved_reset") + 1
              /\ goal_history' = goal_history]_vars

(* C18: a failed ledger append is surfaced and not dropped: a step in which
   the ledger insert of an approval fails ends in the error alert and leaves
   the submission as it was, not approved; a submission becomes approved only
   in a step that appends its chore_approved row; and no approved submission
   is without a chore_approved row that references it. *)
C18_FailureSurfaced ==
    /\ [](\A s \in Submissions :
             submissions[s].status = "approved" => ApprovalRows(points_ledger, s) >= 1)
    /\ [][\A s \in Submissions :
             /\ (ApproveFails(s) \/ alert') =>
                   /\ alert'
                   /\ submissions' = submissions
                   /\ points_ledger' = points_ledger
             /\ (submissions[s].status # "approved" /\ submissions'[s].status = "approved") =>
                   /\ ApprovalRows(points_ledger', s) = ApprovalRows(points_ledger, s) + 1
                   /\ ~alert']_vars

\* the approval of a pending submission has just failed: the error is shown,
\* the submission is still pending and has no ledger row
C18_Witness ==
    /\ alert
    /\ submissions["s1"].status = "pending"
    /\ ApprovalRows(points_ledger, "s1") = 0

(* C19: the ledger and the goal history are append-only: at every step each
   row of points_ledger and of goal_history present before the step is
   present after it, at its place and with the same field values. *)
C19_AppendOnly ==
    [][/\ Len(points_ledger') >= Len(points_ledger)
       /\ SubSeq(points_ledger', 1, Len(points_ledger)) = points_ledger
       /\ Len(goal_history') >= Len(goal_history)
       /\ SubSeq(goal_history', 1, Len(goal_history)) = goal_history]_vars

\* an approved submission was rejected afterwards and its ledger row is kept,
\* next to the rows of an achievement
C19_Witness ==
    /\ submissions["s1"].status = "rejected"
    /\ ApprovalRows(points_ledger, "s1") = 1
    /\ points_ledger[1].reason = "chore_approved"
    /\ CountRows(points_ledger, "c1", "goal_achieved_reset") >= 1
    /\ Len(goal_history) >= 1

(* C20: one invocation of the detector writes at most one goal_history row
   and at most one rollover entry, also when the balance B is two or more
   times the threshold T; such an invocation leaves the balance B - T, still
   >= T, and one goal_history row more. *)
C20_OneAchievementPerInvocation ==
    [][\A c \in Children :
          DetectorStep(c) =>
              LET T == children[c].goal_points
                  B == SumFor(points_ledger, c)
              IN  /\ GoalCount(goal_history', c) <= GoalCount(goal_history, c) + 1
                  /\ CountRows(points_ledger', c, "goal_achieved_reset") <=
                        CountRows(points_ledger, c, "goal_achieved_reset") + 1
                  /\ Len(points_ledger') <= Len(points_ledger) + 1
                  /\ (T > 0 /\ B >= 2 * T /\ goal_history' # goal_history) =>
                        /\ SumFor(points_ledger', c) = B - T
                        /\ SumFor(points_ledger', c) >= T]_vars

\* an achievement at three times the threshold has just been performed and
\* left twice the threshold
C20_Witness ==
    /\ lastFired = "c1"
    /\ GoalCount(goal_history, "c1") = 1
    /\ CountRows(points_ledger, "c1", "goal_achieved_reset") = 1
    /\ LastGoal("c1").points_at_achievement >= 3 * LastGoal("c1").goal_points
    /\ SumFor(points_ledger, "c1") >= 2 * children["c1"].goal_points
    /\ children["c1"].goal_points > 0

---------------------------------------------------------------------------
(* Liveness: the detection sequence that is due after an append is eventually
   run (section 5: at-least-once, not cancellable) *)

\* the operations that append to the ledger and the detector invocations
NextLive ==
    \/ \E s \in Submissions, chore \in ChoreIds : CreateSubmission(s, chore)
    \/ \E s \in Submissions : Approve(s)
    \/ \E c \in Active, d \in ManualDeltas : ManualAppend(c, d)
    \/ \E c \in Active : Detect(c)
    \/ \E c \in Active : Redeliver(c)

SpecLive == Init /\ [][NextLive]_vars /\ \A c \in Active : WF_vars(Detect(c))

(* C21: under fair scheduling every recorded ledger append of a child is
   eventually followed by a detection sequence for the child that has run to
   completion: whenever a detection is due, a state follows in which none is
   due and every goal_history row of the child has its rollover entry. *)
C21_DetectionCompletes ==
    \A c \in Children :
        (pending[c] > 0) ~>
            (/\ pending[c] = 0
             /\ GoalCount(goal_history, c) = CountRows(points_ledger, c, "goal_achieved_reset"))

\* the detections of two appends have run, one of them as a full achievement
C21_Witness ==
    /\ ExternalRowsOf(points_ledger, "c1") = 2
    /\ pending["c1"] = 0
    /\ GoalCount(goal_history, "c1") >= 1
    /\ character_progress["c1"].current_goal_number >= 2

(* C22: a step that changes the goal_points or the reward of a child leaves
   every goal_history row, every ledger row, every slot level and
   current_goal_number as they were, appends nothing and makes no detection
   due: past achievements keep the threshold and reward recorded with them. *)
C22_GoalConfigFrame ==
    [][\A c \in Children :
          (\/ children'[c].goal_points # children[c].goal_points
           \/ children'[c].reward # children[c].reward) =>
              /\ goal_history' = goal_history
              /\ points_ledger' = points_ledger
              /\ character_progress' = character_progress
              /\ pending' = pending
              /\ children'[c].points = children[c].points]_vars

\* the goal was changed after an achievement: the goal_history row holds the
\* threshold and reward of its time, which differ from the present ones
C22_Witness ==
    /\ GoalCount(goal_history, "c1") >= 1
    /\ LastGoal("c1").goal_points = 100
    /\ LastGoal("c1").reward = NULL
    /\ children["c1"].goal_points = 200
    /\ children["c1"].reward = "bike"
    /\ lastFired = NoChild

---------------------------------------------------------------------------
(* A family that also has a chore created from a template *)

NextChores ==
    \/ \E s \in Submissions, chore \in TemplateChoreIds : CreateSubmission(s, chore)
    \/ \E s \in Submissions : Approve(s)
    \/ \E s \in Submissions : Reject(s)
    \/ \E c \in Active, d \in ManualDeltas : ManualAppend(c, d)
    \/ \E c \in Active : Detect(c)
    \/ \E c \in Active : Redeliver(c)
    \/ Tick

SpecChores == Init /\ [][NextChores]_vars

(* C23, as stated: every ledger row has a nonzero delta, whatever the points
   of the approved chore, and for rollovers and adjustments. *)
C23_Original ==
    \A i \in 1..Len(points_ledger) : points_ledger[i].delta # 0

---------------------------------------------------------------------------
(* initialize_character_progress_for_existing_children: the table
   character_progress is added to a database in which children already have
   ledger rows and achieved goals *)

\* the row the function inserts for a child that has none
initialize_row(c) ==
    LET goal_count == GoalCount(goal_history, c)
        current_slot == goal_count + 1
        child_goal_points == children[c].goal_points
        child_current_points == SumFor(points_ledger, c)
        progress_percent == Percent(child_current_points, child_goal_points)
        new_level == IF current_slot <= 3 THEN calculate_character_level(progress_percent)
                     ELSE 1
    IN  [present |-> TRUE,
         current_goal_number |-> current_slot,
         slot1_level |-> IF goal_count >= 1 THEN 5 ELSE IF current_slot = 1 THEN new_level ELSE 1,
         slot2_level |-> IF goal_count >= 2 THEN 5 ELSE IF current_slot = 2 THEN new_level ELSE 1,
         slot3_level |-> IF goal_count >= 3 THEN 5 ELSE IF current_slot = 3 THEN new_level ELSE 1]

\* mutant: the rows of all children are written, existing ones included
initialize_table_overwrite(table) == [c \in Children |-> initialize_row(c)]

\* FOR child_record IN SELECT id FROM children LOOP ... : the table after the call
initialize_table(table) ==
    [c \in Children |-> IF table[c].present THEN table[c] ELSE initialize_row(c)]

initialize_character_progress_for_existing_children ==
    /\ character_progress' = initialize_table(character_progress)
    /\ lastFired' = NoChild
    /\ alert' = FALSE
    /\ UNCHANGED <<points_ledger, goal_history, children, submissions, now, pending, appended>>
    /\ UNCHANGED client
    /\ UNCHANGED parentCache

OldGoals == 0..MaxOldGoals
OldBalances == {-50, 0, 40, 70, 150}
OldThresholds == {0, 100}

\* the ledger and goal_history rows of a child that achieved g goals of 100
\* points, each by a credit of 100 and its rollover, and has balance b
OldLedger(c, g, b) ==
    [i \in 1..(2 * g) |->
        IF i % 2 = 1 THEN LedgerRow(c, 100, "manual_adjustment", NULL)
        ELSE LedgerRow(c, -100, "goal_achieved_reset", NULL)] \o
    (IF b = 0 THEN << >> ELSE <<LedgerRow(c, b, "manual_adjustment", NULL)>>)

OldHistory(c, g) ==
    [i \in 1..g |-> [child_id |-> c, goal_points |-> 100, reward |-> NULL,
                     points_at_achievement |-> 100, achieved_at |-> 0]]

\* child c1 has rows and no character_progress row; child c2 has one ledger
\* row and either a row made by the points_ledger trigger or none
InitExisting ==
    \E g \in OldGoals, b \in OldBalances, T \in OldThresholds, has2 \in BOOLEAN :
        /\ points_ledger = OldLedger("c1", g, b) \o
                              <<LedgerRow("c2", 40, "manual_adjustment", NULL)>>
        /\ goal_history = OldHistory("c1", g)
        /\ children = [c \in Children |->
                         [goal_points |-> IF c = "c1" THEN T ELSE DefaultGoalPoints,
                          reward |-> NULL, points |-> 0]]
        /\ character_progress =
              [c \in Children |->
                  IF c = "c2" /\ has2
                  THEN update_character_progress(NoProgressRow, DefaultGoalPoints, 40, 0)
                  ELSE NoProgressRow]
        /\ submissions = [s \in Submissions |-> [status |-> "none", chore_id |-> NULL]]
        /\ now = 0
        /\ pending = [c \in Children |-> 0]
        /\ lastFired = NoChild
        /\ appended = [c \in Children |-> IF c = "c1" THEN b ELSE 40]
        /\ alert = FALSE
        /\ CacheUnused
        /\ client = ClientClosed

\* a row appended for an existing child after the migration started
ExistingAppend(c, d) ==
    /\ pending[c] = 0
    /\ ExternalRowsOf(points_ledger, c) <= MaxOldGoals
    /\ InsertLedger(LedgerRow(c, d, "manual_adjustment", NULL))
    /\ lastFired' = NoChild
    /\ alert' = FALSE
    /\ UNCHANGED <<goal_history, children, submissions, now>>
    /\ client' = Notified(points_ledger')
    /\ UNCHANGED parentCache

NextExisting ==
    \/ initialize_character_progress_for_existing_children
    \/ \E c \in Active, d \in ManualDeltas : ExistingAppend(c, d)
    \/ \E c \in Active : Detect(c)

SpecExisting == InitExisting /\ [][NextExisting]_vars

(* C30: initialize_character_progress_for_existing_children creates a row
   only for the children that have none, with current_goal_number = goal
   count + 1, level 5 for every slot N <= goal count, the level computed from
   the present balance for the current slot when it is <= 3, and level 1 for
   the later slots; a child that has a row keeps it as it is, and a second
   run changes nothing. *)
C30_InitializeExisting ==
    /\ [](initialize_table(initialize_table(character_progress)) =
             initialize_table(character_progress))
    /\ [][initialize_character_progress_for_existing_children =>
             \A c \in Children :
                 LET old == character_progress[c]
                     new == character_progress'[c]
                     count == GoalCount(goal_history, c)
                 IN  IF old.present THEN new = old
                     ELSE /\ new.present
                          /\ new.current_goal_number = count + 1
                          /\ \A N \in 1..3 :
                                SlotLevel(new, N) =
                                    IF N <= count THEN 5
                                    ELSE IF N = count + 1 THEN ComputedLevel(c)
                                    ELSE 1]_vars

\* the function has made the row of a child with two achieved goals and a
\* balance under way to the third, next to a child whose row existed
C30_Witness ==
    /\ character_progress["c1"] =
          [present |-> TRUE, slot1_level |-> 5, slot2_level |-> 5, slot3_level |-> 4,
           current_goal_number |-> 3]
    /\ SumFor(points_ledger, "c1") = 70
    /\ Len(points_ledger) = 6
    /\ character_progress["c2"].slot1_level = 3
    /\ pending["c1"] = 0

\* a step that creates the character_progress row of child c
CreatesRow(c) == ~character_progress[c].present /\ character_progress'[c].present

(* C24, as stated: each of the three slot levels of every child is between 1
   and 5, and a character_progress row that a step creates has all three
   levels at 1. *)
C24_Original ==
    /\ [](\A c \in Children : \A n \in 1..3 : SlotLevel(character_progress[c], n) \in 1..5)
    /\ [][\A c \in Children :
             CreatesRow(c) => \A n \in 1..3 : SlotLevel(character_progress'[c], n) = 1]_vars

(* C24, amended: each slot level is between 1 and 5.  A row created by the
   points_ledger trigger has the default level 1 in every slot but the
   current one, which holds the level computed for the balance; a row created
   by initialize_character_progress_for_existing_children has level 5 in the
   slots of the achieved goals, the computed level in the current slot and 1
   in the later slots. *)
C24_LevelRange ==
    /\ [](\A c \in Children : \A n \in 1..3 : SlotLevel(character_progress[c], n) \in 1..5)
    /\ [][\A c \in Children :
             CreatesRow(c) =>
                 LET new == character_progress'[c]
                     current == GoalCount(goal_history', c) + 1
                 IN  \A n \in 1..3 :
                        SlotLevel(new, n) =
                            IF n = current THEN ComputedLevel(c)'
                            ELSE IF n < current
                                    /\ initialize_character_progress_for_existing_children
                                 THEN 5
                            ELSE 1]_vars

\* the function has just made the row of a child with one achieved goal, and
\* the row does not start at level 1
C24_Witness ==
    /\ character_progress["c1"].present
    /\ Len(points_ledger) = 4
    /\ GoalCount(goal_history, "c1") = 1
    /\ character_progress["c1"].slot1_level = 5
    /\ character_progress["c1"].slot2_level = 3
    /\ character_progress["c1"].slot3_level = 1

(* C25, as stated: for every child with a character_progress row, every slot
   N <= min(number of goal_history rows, 3) has level exactly 5, and every
   slot whose number is greater than current_goal_number has level 1. *)
C25_Original ==
    \A c \in Children :
        character_progress[c].present =>
            \A N \in 1..3 :
                /\ N <= GoalCount(goal_history, c) => SlotLevel(character_progress[c], N) = 5
                /\ N > character_progress[c].current_goal_number =>
                      SlotLevel(character_progress[c], N) = 1

---------------------------------------------------------------------------
(* The child's page: cached points, change notifications, reloads *)

\* reloads under way at one time
MaxReloads == 2

\* removal of the i-th element of a sequence
RemoveAt(seq, i) == SubSeq(seq, 1, i - 1) \o SubSeq(seq, i + 1, Len(seq))

\* reloads under way: started and not yet answered, or answered and not yet applied
ReloadsUnderWay == client.started + Len(client.results)

\* ChildToday's effect on mount: the session is read, the channel of points_ledger
\* changes is subscribed, and loadLatestPoints is called once
InitClient ==
    /\ points_ledger = << >>
    /\ goal_history = << >>
    /\ character_progress = [c \in Children |-> NoProgressRow]
    /\ children = [c \in Children |->
                     [goal_points |-> DefaultGoalPoints, reward |-> NULL, points |-> 0]]
    /\ submissions = [s \in Submissions |-> [status |-> "none", chore_id |-> NULL]]
    /\ now = 0
    /\ pending = [c \in Children |-> 0]
    /\ lastFired = NoChild
    /\ appended = [c \in Children |-> 0]
    /\ alert = FALSE
    /\ CacheUnused
    /\ client = [subscribed |-> TRUE, points |-> 0, events |-> 0, started |-> 1,
                 results |-> << >>]

\* pointsLedgerChannel's handler: a delivered notification calls loadLatestPoints
NotificationDelivered ==
    /\ client.events > 0
    /\ ReloadsUnderWay < MaxReloads
    /\ client' = [client EXCEPT !.events = @ - 1, !.started = @ + 1]
    /\ lastFired' = NoChild
    /\ alert' = FALSE
    /\ UNCHANGED <<points_ledger, goal_history, character_progress, children,
                   submissions, now, pending, appended>>
    /\ UNCHANGED parentCache

\* the handler called a second time for a notification that is delivered again
NotificationDuplicated ==
    /\ client.events > 0
    /\ ReloadsUnderWay < MaxReloads
    /\ client' = [client EXCEPT !.started = @ + 1]
    /\ lastFired' = NoChild
    /\ alert' = FALSE
    /\ UNCHANGED <<points_ledger, goal_history, character_progress, children,
                   submissions, now, pending, appended>>
    /\ UNCHANGED parentCache

\* loadLatestPoints / loadPointsHistory, the query: child_points_view's total_points
\* of the child as the ledger stands when the query runs
ReloadRead ==
    /\ client.started > 0
    /\ client' = [client EXCEPT !.started = @ - 1,
                                !.results = Append(@, SumFor(points_ledger, ClientChild))]
    /\ lastFired' = NoChild
    /\ alert' = FALSE
    /\ UNCHANGED <<points_ledger, goal_history, character_progress, children,
                   submissions, now, pending, appended>>
    /\ UNCHANGED parentCache

\* loadLatestPoints / loadPointsHistory, after the await: the answer of one of the
\* reloads under way is written to the session, whichever answer arrives
ReloadApply(i) ==
    /\ i \in 1..Len(client.results)
    /\ client' = [client EXCEPT !.points = client.results[i],
                                !.results = RemoveAt(@, i)]
    /\ lastFired' = NoChild
    /\ alert' = FALSE
    /\ UNCHANGED <<points_ledger, goal_history, character_progress, children,
                   submissions, now, pending, appended>>
    /\ UNCHANGED parentCache

NextClient ==
    \/ \E c \in Active, d \in ManualDeltas : ManualAppend(c, d)
    \/ \E c \in Active : Detect(c)
    \/ NotificationDelivered
    \/ NotificationDuplicated
    \/ ReloadRead
    \/ \E i \in 1..MaxReloads : ReloadApply(i)

SpecClient == InitClient /\ [][NextClient]_vars

\* every notification delivered and every reload finished
ClientQuiet == client.events = 0 /\ ReloadsUnderWay = 0

\* C26: once every change notification has been delivered and every reload has
\* finished, the points cached in the child's session equal SumFor of the child,
\* whatever the order of notifications and of overlapping reloads
C26_Original ==
    (client.subscribed /\ ClientQuiet) => client.points = SumFor(points_ledger, ClientChild)

---------------------------------------------------------------------------
(* Two children of one family *)

\* appends, detections and redeliveries of both children, interleaved freely
NextTwo ==
    \/ \E c \in Children, d \in ManualDeltas : ManualAppend(c, d)
    \/ \E c \in Children : Detect(c)
    \/ \E c \in Children : Redeliver(c)

SpecTwo == Init /\ [][NextTwo]_vars

\* SELECT * FROM goal_history WHERE child_id = c
HistoryOf(rows, c) == SelectSeq(rows, LAMBDA r : r.child_id = c)

\* the step is an operation on child a: an append, a detection or a redelivery
StepOf(a) ==
    \/ \E d \in ManualDeltas : ManualAppend(a, d)
    \/ Detect(a)
    \/ Redeliver(a)

\* the step leaves everything recorded for child b as it was
Untouched(b) ==
    /\ SumFor(points_ledger', b) = SumFor(points_ledger, b)
    /\ HistoryOf(goal_history', b) = HistoryOf(goal_history, b)
    /\ character_progress'[b] = character_progress[b]

\* C27: a ledger append, an achievement or a rollover for one child leaves the other
\* child's ledger sum, goal_history rows, slot levels and current_goal_number
\* unchanged, in every interleaving of the operations on the two children
C27_ChildIsolation ==
    [][\A a \in Children : StepOf(a) => \A b \in Children \ {a} : Untouched(b)]_vars

\* both children have rows and one of them has achieved a goal and been rolled over
C27_Witness ==
    /\ RowsOf(points_ledger, "c1") > 0
    /\ RowsOf(points_ledger, "c2") > 0
    /\ \E a \in Children :
          /\ GoalCount(goal_history, a) = 1
          /\ CountRows(points_ledger, a, "goal_achieved_reset") = 1

---------------------------------------------------------------------------
(* Submissions that were never approved *)

\* SELECT COUNT(*) FROM points_ledger WHERE submission_id = s
RECURSIVE ReferringRows(_, _)
ReferringRows(rows, s) ==
    IF rows = << >> THEN 0
    ELSE (IF Head(rows).submission_id = s THEN 1 ELSE 0) + ReferringRows(Tail(rows), s)

\* the step creates submission s as pending, or rejects it
CreatedOrRejected(s) ==
    /\ submissions'[s] # submissions[s]
    /\ submissions'[s].status \in {"pending", "rejected"}

\* C28: a submission that has never been approved has no ledger row referring to
\* it: a row referring to a submission appears only in the step that turns it to
\* approved, and the step that creates it as pending or rejects it appends nothing
\* and leaves the child's sum and character_progress row as they were
C28_NeverApprovedNoEntry ==
    /\ [](\A s \in Submissions :
             submissions[s].status \in {"none", "pending"}
                => ReferringRows(points_ledger, s) = 0)
    /\ [][\A s \in Submissions :
             /\ ReferringRows(points_ledger', s) # ReferringRows(points_ledger, s)
                   => (submissions'[s].status = "approved"
                       /\ submissions[s].status # "approved")
             /\ CreatedOrRejected(s)
                   => /\ points_ledger' = points_ledger
                      /\ SumFor(points_ledger', SubChild(s)) = SumFor(points_ledger, SubChild(s))
                      /\ character_progress' = character_progress]_vars

\* a submission rejected without ever having been approved, its child holding points
C28_Witness ==
    \E s \in Submissions :
        /\ submissions[s].status = "rejected"
        /\ ReferringRows(points_ledger, s) = 0
        /\ SumFor(points_ledger, SubChild(s)) > 0

---------------------------------------------------------------------------
(* cache.set, cache.get, cache.invalidate *)

\* everything but the parent's cache
ledgerSide == <<points_ledger, goal_history, character_progress, children, submissions,
                now, pending, lastFired, appended, alert, client>>

\* the CacheItem that set builds at time t
CacheItem(data, ttlMs, t) == [data |-> data, timestamp |-> t, expiresAt |-> t + ttlMs]

\* what the log keeps of a set: its data and its expiry
LogEntry(data, ttlMs, t) == [present |-> TRUE, data |-> data, expiresAt |-> t + ttlMs]

\* mutant: an entry expires at its expiry time, not after it
cache_get_expires_early(store, key, t) ==
    LET itemStr == store[StorageKey(key)] IN
    IF itemStr = NoItem THEN [value |-> NULL, store |-> store]
    ELSE IF t >= Parse(itemStr).expiresAt
         THEN [value |-> NULL, store |-> [store EXCEPT ![StorageKey(key)] = NoItem]]
         ELSE [value |-> Parse(itemStr).data, store |-> store]

\* cache.get: the value returned and the storage left behind
cache_get(store, key, t) ==
    LET itemStr == store[StorageKey(key)] IN
    IF itemStr = NoItem THEN [value |-> NULL, store |-> store]
    ELSE IF t > Parse(itemStr).expiresAt
         THEN [value |-> NULL, store |-> [store EXCEPT ![StorageKey(key)] = NoItem]]
         ELSE [value |-> Parse(itemStr).data, store |-> store]

InitCache ==
    /\ points_ledger = << >>
    /\ goal_history = << >>
    /\ character_progress = [c \in Children |-> NoProgressRow]
    /\ children = [c \in Children |->
                     [goal_points |-> DefaultGoalPoints, reward |-> NULL, points |-> 0]]
    /\ submissions = [s \in Submissions |-> [status |-> "none", chore_id |-> NULL]]
    /\ now = 0
    /\ pending = [c \in Children |-> 0]
    /\ lastFired = NoChild
    /\ appended = [c \in Children |-> 0]
    /\ alert = FALSE
    /\ client = ClientClosed
    /\ localStorage = EmptyStorage
    /\ dateNow = 0
    /\ cacheLog = NoCacheLog

\* cache.set whose localStorage.setItem stores the item
set(key, data, ttlMs) ==
    /\ localStorage' = [localStorage EXCEPT ![StorageKey(key)] =
                            Stringify(CacheItem(data, ttlMs, dateNow))]
    /\ cacheLog' = [cacheLog EXCEPT !.called[key] = LogEntry(data, ttlMs, dateNow),
                                    !.stored[key] = LogEntry(data, ttlMs, dateNow)]
    /\ UNCHANGED <<dateNow, ledgerSide>>

\* cache.set whose localStorage.setItem throws: the catch logs the error and the
\* storage keeps what it held
setFails(key, data, ttlMs) ==
    /\ localStorage' = localStorage
    /\ cacheLog' = [cacheLog EXCEPT !.called[key] = LogEntry(data, ttlMs, dateNow)]
    /\ UNCHANGED <<dateNow, ledgerSide>>

\* cache.get
get(key) ==
    /\ localStorage' = cache_get(localStorage, key, dateNow).store
    /\ cacheLog' = [cacheLog EXCEPT !.returned =
                       [key |-> key, value |-> cache_get(localStorage, key, dateNow).value]]
    /\ UNCHANGED <<dateNow, ledgerSide>>

\* cache.invalidate
invalidate(key) ==
    /\ localStorage' = [localStorage EXCEPT ![StorageKey(key)] = NoItem]
    /\ cacheLog' = [cacheLog EXCEPT !.called[key] = NoEntry, !.stored[key] = NoEntry]
    /\ UNCHANGED <<dateNow, ledgerSide>>

\* the clock of the browser advances
ClockTick ==
    /\ dateNow < MaxClock
    /\ dateNow' = dateNow + 1
    /\ UNCHANGED <<localStorage, cacheLog, ledgerSide>>

NextCache ==
    \/ \E key \in Keys, data \in DataValues, ttlMs \in TTLs : set(key, data, ttlMs)
    \/ \E key \in Keys, data \in DataValues, ttlMs \in TTLs : setFails(key, data, ttlMs)
    \/ \E key \in Keys : get(key)
    \/ \E key \in Keys : invalidate(key)
    \/ ClockTick

SpecCache == InitCache /\ [][NextCache]_vars

\* what get is to return for a key whose last set, since the last invalidate, is e
Expected(e) == IF ~e.present \/ dateNow > e.expiresAt THEN NULL ELSE e.data

\* the last set of the key, since its last invalidate, is past its expiry
Expired(e) == e.present /\ dateNow > e.expiresAt

\* C29: get(key) returns the data of the most recent set(key, data, ttl) while the
\* time is not past set time + ttl and the key has not been invalidated, returns
\* null past the expiry or after invalidate(key), and removes the expired entry
C29_Original ==
    [][\A key \in Keys :
          get(key) => /\ cacheLog'.returned.value = Expected(cacheLog.called[key])
                      /\ Expired(cacheLog.called[key])
                            => localStorage'[StorageKey(key)] = NoItem]_vars

\* C29: get(key) returns the data of the most recent set(key, data, ttl) that was
\* stored while the time is not past that set's time + ttl and the key has not been
\* invalidated since, returns null past the expiry or after invalidate(key), and
\* removes the expired entry; a set whose write to the storage fails changes nothing
C29_StoredSet ==
    [][\A key \in Keys :
          get(key) => /\ cacheLog'.returned.value = Expected(cacheLog.stored[key])
                      /\ Expired(cacheLog.stored[key])
                            => localStorage'[StorageKey(key)] = NoItem]_vars

\* a get has returned the data of a key at its expiry time, and the other key,
\* set earlier and past its expiry, has been removed by a get
C29_Witness ==
    /\ cacheLog.returned.value \in DataValues
    /\ \E key \in Keys :
          /\ key = cacheLog.returned.key
          /\ cacheLog.stored[key].present
          /\ cacheLog.stored[key].expiresAt = dateNow
    /\ \E key \in Keys :
          /\ Expired(cacheLog.stored[key])
          /\ localStorage[StorageKey(key)] = NoItem

=============================================================================
